---- MODULE Spec2Model ----
(***************************************************************************)
(* Model of the split_nodes scripts: node_allocation/parsers.py,           *)
(* node_allocation/strategies.py and split_nodes_by_leaf.py.               *)
(*                                                                         *)
(* Node and switch names are strings in the program; they are modelled as  *)
(* integers whose numeric order is the lexicographic order of the names    *)
(* (names of equal width: n01 < n02 < ...).                                *)
(***************************************************************************)
EXTENDS Integers, Sequences, FiniteSets, TLC

\* ---- bounds ----
NumSwitch == 3      \* leaf switch names: 1..NumSwitch
MaxAlloc == 3       \* small inputs: longest allocated list, node names
MaxK == 5           \* equal-switch inputs: two switches of k <= MaxK nodes
MaxLines == 3       \* longest topology text
MaxTopoSwitch == 2  \* switch names declared by the topology text

Nodes == 1..MaxAlloc
Switches == 1..NumSwitch

VARIABLES
    pc,                \* position in process_files / the strategy
    allocated_nodes,   \* process_files: list read by parse_allocated_nodes
    node_to_switch,    \* parse_topology_file: node -> switch
    switch_hierarchy,  \* parse_topology_file: [parents, children]
    strategy,          \* "even" or "compact"
    workload_a_nodes,  \* requested size of A
    workload_b_nodes,  \* requested size of B
    switch_to_nodes,   \* group_nodes_by_switch: insertion-ordered dict
    workload_a,        \* strategy local / result
    workload_b,        \* strategy local / result
    loc,               \* the other locals of the running strategy
    output_file,       \* lines written to the output file
    error,             \* message printed to stderr before sys.exit(1)
    lines,             \* parse_topology_file: topo_output
    line_no,           \* parse_topology_file: position of the loop
    current_switch     \* parse_topology_file: current_switch

vars == <<pc, allocated_nodes, node_to_switch, switch_hierarchy, strategy,
          workload_a_nodes, workload_b_nodes, switch_to_nodes,
          workload_a, workload_b, loc, output_file, error,
          lines, line_no, current_switch>>

\* ---- Python built-ins ----
Min(x, y) == IF x <= y THEN x ELSE y
Max(x, y) == IF x >= y THEN x ELSE y

\* seq[:k]
PyTake(seq, k) ==
    LET n == IF k >= 0 THEN Min(k, Len(seq)) ELSE Max(Len(seq) + k, 0)
    IN  SubSeq(seq, 1, n)

\* seq[k:]  (k >= 0 at every use)
PyDrop(seq, k) == SubSeq(seq, Min(k, Len(seq)) + 1, Len(seq))

\* sorted(list)
Sorted(seq) == SortSeq(seq, LAMBDA x, y: x < y)

SeqToSet(seq) == {seq[i] : i \in 1..Len(seq)}

\* sorted(set)
RECURSIVE SortedSet(_)
SortedSet(S) ==
    IF S = {} THEN <<>>
    ELSE LET m == CHOOSE x \in S : \A y \in S : x <= y
         IN  <<m>> \o SortedSet(S \ {m})

\* round(num / den) for num >= 0, den > 0: Python 3 rounds halves to even.
\* (float evaluation of round(n * (p / (p + q))) agrees with the exact
\* value for all n, p, q <= 12, beyond the range the bounds reach.)
PyRound(num, den) ==
    LET q == num \div den
        r == num % den
    IN  IF 2 * r < den THEN q
        ELSE IF 2 * r > den THEN q + 1
        ELSE IF q % 2 = 0 THEN q ELSE q + 1

\* ---- parsers.py ----

\* switch_to_nodes.setdefault(switch, []).append(node); a dict keeps its keys
\* in insertion order, so it is a sequence of [switch, nodes] entries
SetDefaultAppend(groups, switch, node) ==
    IF \E i \in 1..Len(groups) : groups[i].switch = switch
    THEN [i \in 1..Len(groups) |->
            IF groups[i].switch = switch
            THEN [groups[i] EXCEPT !.nodes = Append(@, node)]
            ELSE groups[i]]
    ELSE Append(groups, [switch |-> switch, nodes |-> <<node>>])

RECURSIVE GroupFrom(_, _, _)
GroupFrom(alloc, n2s, groups) ==
    IF alloc = <<>> THEN groups
    ELSE LET node == Head(alloc)
         IN  GroupFrom(Tail(alloc), n2s,
                       IF node \in DOMAIN n2s
                       THEN SetDefaultAppend(groups, n2s[node], node)
                       ELSE groups)

group_nodes_by_switch(alloc, n2s) == GroupFrom(alloc, n2s, <<>>)

\* dict views
Keys(groups) == [i \in 1..Len(groups) |-> groups[i].switch]
Get(groups, switch) ==
    groups[CHOOSE i \in 1..Len(groups) : groups[i].switch = switch].nodes

\* None
None == 0

\* calculate_switch_distance; hierarchy.parents maps a switch to the text
\* after "Switches=", modelled as the sequence of the comma-separated names
calculate_switch_distance(switch1, switch2, hierarchy) ==
    LET parents == hierarchy.parents
    IN  IF switch1 = switch2 THEN 0
        ELSE IF switch1 \notin DOMAIN parents \/ switch2 \notin DOMAIN parents
        THEN 2
        ELSE IF /\ parents[switch1] # <<>>
                /\ parents[switch2] # <<>>
                /\ parents[switch1] = parents[switch2]
        THEN 1
        ELSE 2

\* ---- strategies.py ----

RECURSIVE SortedValues(_)
SortedValues(groups) ==
    IF groups = <<>> THEN <<>>
    ELSE Sorted(Head(groups).nodes) \o SortedValues(Tail(groups))

\* mutant of handle_single_switch_case: B starts one node too late
handle_single_switch_case_OffByOne(groups, a) ==
    LET all_nodes == SortedValues(groups)
    IN  <<PyTake(all_nodes, a), PyDrop(all_nodes, a + 1)>>

\* _handle_single_switch_case: returns <<workload_a, workload_b>>
handle_single_switch_case(groups, a) ==
    LET all_nodes == SortedValues(groups)
    IN  <<PyTake(all_nodes, a), PyDrop(all_nodes, a)>>

\* all_nodes of both strategies, used as a set only
RECURSIVE AllNodes(_)
AllNodes(groups) ==
    IF groups = <<>> THEN {}
    ELSE SeqToSet(Head(groups).nodes) \cup AllNodes(Tail(groups))

\* mutant of EvenCounts: the requested ratio is used in both branches
EvenCounts_RequestedRatio(num_nodes, total_a, total_b, a, b) ==
    LET nodes_left_a == Max(0, a - total_a)
        nodes_left_b == Max(0, b - total_b)
    IN  IF a = 0
        THEN <<0, IF num_nodes <= nodes_left_a + nodes_left_b
                  THEN Min(num_nodes, nodes_left_b) ELSE num_nodes>>
        ELSE IF b = 0
        THEN <<IF num_nodes <= nodes_left_a + nodes_left_b
               THEN Min(num_nodes, nodes_left_a) ELSE num_nodes, 0>>
        ELSE LET a_count ==
                     Min(PyRound(num_nodes * a, a + b), nodes_left_a)
             IN  <<a_count, Min(num_nodes - a_count, nodes_left_b)>>

\* even: a_count and b_count of one loop iteration (lines 92-126)
EvenCounts(num_nodes, total_a, total_b, a, b) ==
    LET nodes_left_a == Max(0, a - total_a)
        nodes_left_b == Max(0, b - total_b)
    IN  IF num_nodes <= nodes_left_a + nodes_left_b
        THEN IF nodes_left_a = 0
             THEN <<0, Min(num_nodes, nodes_left_b)>>
             ELSE IF nodes_left_b = 0
             THEN <<Min(num_nodes, nodes_left_a), 0>>
             ELSE LET a_count ==
                          Min(PyRound(num_nodes * nodes_left_a,
                                      nodes_left_a + nodes_left_b),
                              nodes_left_a)
                  IN  <<a_count, Min(num_nodes - a_count, nodes_left_b)>>
        ELSE IF a = 0
             THEN <<0, num_nodes>>
             ELSE IF b = 0
             THEN <<num_nodes, 0>>
             ELSE LET a_count ==
                          Min(PyRound(num_nodes * a, a + b), nodes_left_a)
                  IN  <<a_count, Min(num_nodes - a_count, nodes_left_b)>>

\* even: the locals before the loop (lines 63-80)
EvenInit ==
    [workload_a |-> <<>>, workload_b |-> <<>>, total_a |-> 0, total_b |-> 0,
     allocated_nodes |-> {}]

\* mutant of EvenBreak: the loop stops when one workload is full
EvenBreak_Either(st, a, b) == st.total_a >= a \/ st.total_b >= b

\* even: the break test at the head of an iteration (line 88)
EvenBreak(st, a, b) == st.total_a >= a /\ st.total_b >= b

\* even: one iteration past the break test (lines 84-137)
EvenBody(st, raw_nodes, a, b) ==
    LET nodes == Sorted(raw_nodes)
        c == EvenCounts(Len(nodes), st.total_a, st.total_b, a, b)
        a_count == c[1]
        b_count == c[2]
    IN  [workload_a |-> st.workload_a \o PyTake(nodes, a_count),
         workload_b |-> st.workload_b \o PyTake(PyDrop(nodes, a_count), b_count),
         total_a |-> st.total_a + a_count,
         total_b |-> st.total_b + b_count,
         allocated_nodes |->
             st.allocated_nodes \cup SeqToSet(PyTake(nodes, a_count + b_count))]

\* even: after the loop (lines 140-145): workload_b of the result
EvenRemainder(st, groups) ==
    LET unallocated_nodes == SortedSet(AllNodes(groups) \ st.allocated_nodes)
    IN  st.workload_b \o unallocated_nodes

\* mutant of SortedKeys: the switches are visited in insertion order
SortedKeys_Unsorted(groups) == Keys(groups)

\* sorted(switch_to_nodes.keys())
SortedKeys(groups) == Sorted(Keys(groups))

RECURSIVE EvenLoop(_, _, _, _, _)
EvenLoop(st, groups, keys, a, b) ==
    IF keys = <<>> \/ EvenBreak(st, a, b) THEN st
    ELSE EvenLoop(EvenBody(st, Get(groups, Head(keys)), a, b),
                  groups, Tail(keys), a, b)

\* evenly_split_nodes_between_workloads: returns <<workload_a, workload_b>>
evenly_split_nodes_between_workloads(groups, a, b) ==
    IF Len(groups) = 1 THEN handle_single_switch_case(groups, a)
    ELSE LET st == EvenLoop(EvenInit, groups, SortedKeys(groups), a, b)
         IN  <<st.workload_a, EvenRemainder(st, groups)>>

\* compact: the switch with the most nodes, the first one on ties
\* (lines 187-192)
RECURSIVE FindLargest(_, _, _)
FindLargest(groups, largest_switch, most_nodes) ==
    IF groups = <<>> THEN largest_switch
    ELSE IF Len(Head(groups).nodes) > most_nodes
         THEN FindLargest(Tail(groups), Head(groups).switch,
                          Len(Head(groups).nodes))
         ELSE FindLargest(Tail(groups), largest_switch, most_nodes)

LargestSwitch(groups) == FindLargest(groups, None, 0)

\* list.sort(key=lambda x: x[1]) is stable: x goes after every entry whose
\* distance is not larger
InsertByDistance(sorted, x) ==
    LET n == Cardinality({i \in 1..Len(sorted) : sorted[i][2] <= x[2]})
    IN  SubSeq(sorted, 1, n) \o <<x>> \o SubSeq(sorted, n + 1, Len(sorted))

RECURSIVE SortByDistance(_)
SortByDistance(pairs) ==
    IF pairs = <<>> THEN <<>>
    ELSE InsertByDistance(SortByDistance(SubSeq(pairs, 1, Len(pairs) - 1)),
                          pairs[Len(pairs)])

\* mutant of RemainingSwitches: the largest switch is not left out
RemainingSwitches_All(groups, largest_switch, hierarchy) ==
    LET others == Keys(groups)
        pairs == [i \in 1..Len(others) |->
                    <<others[i],
                      calculate_switch_distance(largest_switch, others[i],
                                                hierarchy)>>]
    IN  SortByDistance(pairs)

\* compact: remaining_switches (lines 219-222)
RemainingSwitches(groups, largest_switch, hierarchy) ==
    LET others == SelectSeq(Keys(groups), LAMBDA s : s # largest_switch)
        pairs == [i \in 1..Len(others) |->
                    <<others[i],
                      calculate_switch_distance(largest_switch, others[i],
                                                hierarchy)>>]
    IN  SortByDistance(pairs)

\* mutant of CompactInit: no node of the largest switch is put in A first
CompactInit_NoSeed(groups, hierarchy, a, b) ==
    LET largest_switch == LargestSwitch(groups)
        rest == Sorted(Get(groups, largest_switch))
        nodes_needed_for_b_from_largest_switch == Min(b, Len(rest))
    IN  [workload_a |-> <<>>,
         workload_b |-> PyTake(rest, nodes_needed_for_b_from_largest_switch),
         largest_switch |-> largest_switch,
         largest_switch_remaining_nodes |->
             PyDrop(rest, nodes_needed_for_b_from_largest_switch),
         remaining_switches |->
             RemainingSwitches(groups, largest_switch, hierarchy),
         nodes_needed |-> a]

\* compact: the locals before the fill loop (lines 204-225)
CompactInit(groups, hierarchy, a, b) ==
    LET largest_switch == LargestSwitch(groups)
        sorted_nodes == Sorted(Get(groups, largest_switch))
        rest == Tail(sorted_nodes)
        nodes_needed_for_b_from_largest_switch == Min(b, Len(rest))
    IN  [workload_a |-> <<sorted_nodes[1]>>,
         workload_b |-> PyTake(rest, nodes_needed_for_b_from_largest_switch),
         largest_switch |-> largest_switch,
         largest_switch_remaining_nodes |->
             PyDrop(rest, nodes_needed_for_b_from_largest_switch),
         remaining_switches |->
             RemainingSwitches(groups, largest_switch, hierarchy),
         nodes_needed |-> a - 1]

\* compact: one iteration of the fill loop up to its break test
\* (lines 229-238)
CompactFillBody(st, raw_nodes) ==
    LET switch_nodes == Sorted(raw_nodes)
    IN  IF Len(switch_nodes) <= st.nodes_needed
        THEN [st EXCEPT !.workload_a = @ \o switch_nodes,
                        !.nodes_needed = @ - Len(switch_nodes)]
        ELSE [st EXCEPT !.workload_a = @ \o PyTake(switch_nodes, st.nodes_needed),
                        !.nodes_needed = 0]

\* compact: after the fill loop (lines 245-257): <<workload_a, workload_b>>
CompactRest(st, groups, b) ==
    LET wa == IF st.nodes_needed > 0
              THEN st.workload_a \o
                   PyTake(st.largest_switch_remaining_nodes, st.nodes_needed)
              ELSE st.workload_a
        nodes_needed_for_b == b - Len(st.workload_b)
        allocated == SeqToSet(wa \o st.workload_b)
        unallocated_nodes == SortedSet(AllNodes(groups) \ allocated)
    IN  <<wa,
          IF nodes_needed_for_b > 0
          THEN st.workload_b \o PyTake(unallocated_nodes, nodes_needed_for_b)
          ELSE st.workload_b>>

RECURSIVE CompactLoop(_, _, _)
CompactLoop(st, groups, j) ==
    IF j > Len(st.remaining_switches) THEN st
    ELSE LET nx == CompactFillBody(st, Get(groups, st.remaining_switches[j][1]))
         IN  IF nx.nodes_needed <= 0 THEN nx
             ELSE CompactLoop(nx, groups, j + 1)

\* compact_split_nodes_between_workloads: returns <<workload_a, workload_b>>
compact_split_nodes_between_workloads(groups, hierarchy, a, b) ==
    IF Len(groups) = 1 THEN handle_single_switch_case(groups, a)
    ELSE IF LargestSwitch(groups) = None THEN <<(<<>>), (<<>>)>>
    ELSE CompactRest(CompactLoop(CompactInit(groups, hierarchy, a, b),
                                 groups, 1),
                     groups, b)

\* ---- inputs ----

\* switch_hierarchy['children'] as parse_topology_file builds it when the
\* leaf switches are declared in ascending order (lines 92-95); '' splits
\* into one empty name, modelled as None
SplitComma(parents) == IF parents = <<>> THEN <<None>> ELSE parents

RECURSIVE AddChildren(_, _, _)
AddChildren(children, names, switch) ==
    IF names = <<>> THEN children
    ELSE LET parent == Head(names)
             old == IF parent \in DOMAIN children THEN children[parent]
                    ELSE <<>>
             new == [p \in DOMAIN children \cup {parent} |->
                        IF p = parent THEN Append(old, switch)
                        ELSE children[p]]
         IN  AddChildren(new, Tail(names), switch)

RECURSIVE ChildrenOf(_, _)
ChildrenOf(parents, switches) ==
    IF switches = <<>> THEN <<>>
    ELSE LET n == Len(switches)
             before == ChildrenOf(parents, SubSeq(switches, 1, n - 1))
         IN  AddChildren(before, SplitComma(parents[switches[n]]), switches[n])

HierarchyOf(parents) ==
    [parents |-> parents,
     children |-> ChildrenOf(parents, SortedSet(DOMAIN parents))]

\* hierarchies of the inputs: no parent recorded at all, every leaf switch
\* under one aggregation switch, odd and even leaf switches under two
ParentA == NumSwitch + 1
ParentB == NumSwitch + 2
Hierarchies ==
    {HierarchyOf(<<>>),
     HierarchyOf([s \in Switches |-> <<ParentA>>]),
     HierarchyOf([s \in Switches |->
                    IF s % 2 = 1 THEN <<ParentA>> ELSE <<ParentB>>])}

\* topologies of the small inputs: any subset of the allocated nodes is
\* known to the topology, switches are assigned in node order
Topologies(known) ==
    UNION {{f \in [D -> Switches] :
              \A x \in D, y \in D : x <= y => f[x] <= f[y]} :
           D \in SUBSET known}

NoLocals == [strategy |-> "none"]

\* the output file does not exist
NoFile == <<>>

\* allocated lists of the small inputs: ascending or descending, a node
\* may occur more than once
Monotone(seq) ==
    \/ \A i \in 1..(Len(seq) - 1) : seq[i] <= seq[i + 1]
    \/ \A i \in 1..(Len(seq) - 1) : seq[i] >= seq[i + 1]

Allocations ==
    {seq \in UNION {[1..n -> Nodes] : n \in 0..MaxAlloc} : Monotone(seq)}

\* the requests run up to one node more than there are allocated nodes
InitSmall ==
    /\ allocated_nodes \in Allocations
    /\ node_to_switch \in Topologies(SeqToSet(allocated_nodes))
    /\ workload_a_nodes \in 0..(Len(allocated_nodes) + 1)
    /\ workload_b_nodes \in 0..(Len(allocated_nodes) + 1 - workload_a_nodes)

\* two switches of k nodes each, requested_b = k and requested_a up to k
InitEqual ==
    \E k \in 1..MaxK :
        /\ allocated_nodes \in {[i \in 1..(2 * k) |-> i],
                                [i \in 1..(2 * k) |-> 2 * k + 1 - i]}
        /\ \E sa \in Switches, sb \in Switches :
              /\ sa # sb
              /\ node_to_switch =
                     [n \in 1..(2 * k) |-> IF n <= k THEN sa ELSE sb]
        /\ workload_a_nodes \in 0..k
        /\ workload_b_nodes = k

Init ==
    /\ pc = "start"
    /\ InitSmall \/ InitEqual
    /\ strategy \in {"even", "compact"}
    /\ switch_hierarchy \in Hierarchies
    /\ strategy = "even" => switch_hierarchy = HierarchyOf(<<>>)
    /\ switch_to_nodes = <<>>
    /\ workload_a = <<>>
    /\ workload_b = <<>>
    /\ loc = NoLocals
    /\ output_file = NoFile
    /\ error = ""
    /\ lines = <<>>
    /\ line_no = 1
    /\ current_switch = None

Inputs == <<allocated_nodes, node_to_switch, switch_hierarchy, strategy,
            workload_a_nodes, workload_b_nodes, lines, line_no,
            current_switch>>

\* ---- split_nodes_by_leaf.py: process_files ----

\* lines 55-62: the files are parsed, the nodes are grouped
GroupNodes ==
    /\ pc = "start"
    /\ switch_to_nodes' = group_nodes_by_switch(allocated_nodes, node_to_switch)
    /\ pc' = "grouped"
    /\ UNCHANGED <<Inputs, workload_a, workload_b, loc, output_file, error>>

total_nodes == Len(allocated_nodes)

\* lines 70-73 (the test of lines 65-67 cannot hold: both sizes are
\* required options)
AbortInsufficient ==
    /\ pc = "grouped"
    /\ workload_a_nodes + workload_b_nodes > total_nodes
    /\ error' = "InsufficientNodes"
    /\ pc' = "exit"
    /\ UNCHANGED <<Inputs, switch_to_nodes, workload_a, workload_b, loc,
                   output_file>>

\* lines 76-83 with strategies.py lines 59-60 and 175-176
CallSingleSwitch ==
    /\ pc = "grouped"
    /\ workload_a_nodes + workload_b_nodes <= total_nodes
    /\ Len(switch_to_nodes) = 1
    /\ LET r == handle_single_switch_case(switch_to_nodes, workload_a_nodes)
       IN  workload_a' = r[1] /\ workload_b' = r[2]
    /\ pc' = "returned"
    /\ UNCHANGED <<Inputs, switch_to_nodes, loc, output_file, error>>

\* the locals of the even strategy as one record
EvenState ==
    [workload_a |-> workload_a, workload_b |-> workload_b,
     total_a |-> loc.total_a, total_b |-> loc.total_b,
     allocated_nodes |-> loc.allocated_nodes]

EvenLocals(st, i) ==
    [strategy |-> "even", total_a |-> st.total_a, total_b |-> st.total_b,
     allocated_nodes |-> st.allocated_nodes, i |-> i]

\* strategies.py lines 62-80
EvenBegin ==
    /\ pc = "grouped"
    /\ workload_a_nodes + workload_b_nodes <= total_nodes
    /\ strategy = "even"
    /\ Len(switch_to_nodes) # 1
    /\ workload_a' = EvenInit.workload_a
    /\ workload_b' = EvenInit.workload_b
    /\ loc' = EvenLocals(EvenInit, 1)
    /\ pc' = "even_loop"
    /\ UNCHANGED <<Inputs, switch_to_nodes, output_file, error>>

\* strategies.py lines 83-137: one iteration for the i-th switch
EvenIter ==
    /\ pc = "even_loop"
    /\ loc.i <= Len(switch_to_nodes)
    /\ ~EvenBreak(EvenState, workload_a_nodes, workload_b_nodes)
    /\ LET switch == SortedKeys(switch_to_nodes)[loc.i]
           st == EvenBody(EvenState, Get(switch_to_nodes, switch),
                          workload_a_nodes, workload_b_nodes)
       IN  /\ workload_a' = st.workload_a
           /\ workload_b' = st.workload_b
           /\ loc' = EvenLocals(st, loc.i + 1)
    /\ UNCHANGED <<pc, Inputs, switch_to_nodes, output_file, error>>

\* strategies.py lines 139-145: the loop is over, the remainder goes to B
EvenReturn ==
    /\ pc = "even_loop"
    /\ \/ loc.i > Len(switch_to_nodes)
       \/ EvenBreak(EvenState, workload_a_nodes, workload_b_nodes)
    /\ workload_b' = EvenRemainder(EvenState, switch_to_nodes)
    /\ pc' = "returned"
    /\ UNCHANGED <<Inputs, switch_to_nodes, workload_a, loc, output_file,
                   error>>

CompactLocals(st, j) ==
    [strategy |-> "compact", largest_switch |-> st.largest_switch,
     largest_switch_remaining_nodes |-> st.largest_switch_remaining_nodes,
     remaining_switches |-> st.remaining_switches,
     nodes_needed |-> st.nodes_needed, j |-> j]

CompactState ==
    [workload_a |-> workload_a, workload_b |-> workload_b,
     largest_switch |-> loc.largest_switch,
     largest_switch_remaining_nodes |-> loc.largest_switch_remaining_nodes,
     remaining_switches |-> loc.remaining_switches,
     nodes_needed |-> loc.nodes_needed]

\* strategies.py lines 178-197: no switch group, two empty lists
\* (the test of line 199 cannot hold: the largest switch has a node)
CompactEmpty ==
    /\ pc = "grouped"
    /\ workload_a_nodes + workload_b_nodes <= total_nodes
    /\ strategy = "compact"
    /\ Len(switch_to_nodes) # 1
    /\ LargestSwitch(switch_to_nodes) = None
    /\ workload_a' = <<>>
    /\ workload_b' = <<>>
    /\ pc' = "returned"
    /\ UNCHANGED <<Inputs, switch_to_nodes, loc, output_file, error>>

\* strategies.py lines 178-225
CompactBegin ==
    /\ pc = "grouped"
    /\ workload_a_nodes + workload_b_nodes <= total_nodes
    /\ strategy = "compact"
    /\ Len(switch_to_nodes) # 1
    /\ LargestSwitch(switch_to_nodes) # None
    /\ LET st == CompactInit(switch_to_nodes, switch_hierarchy,
                             workload_a_nodes, workload_b_nodes)
       IN  /\ workload_a' = st.workload_a
           /\ workload_b' = st.workload_b
           /\ loc' = CompactLocals(st, 1)
    /\ pc' = "compact_fill"
    /\ UNCHANGED <<Inputs, switch_to_nodes, output_file, error>>

\* strategies.py lines 227-242: one iteration for the j-th nearest switch
CompactFill ==
    /\ pc = "compact_fill"
    /\ loc.j <= Len(loc.remaining_switches)
    /\ LET switch == loc.remaining_switches[loc.j][1]
           st == CompactFillBody(CompactState, Get(switch_to_nodes, switch))
       IN  /\ workload_a' = st.workload_a
           /\ loc' = CompactLocals(st, loc.j + 1)
           /\ pc' = IF st.nodes_needed <= 0 THEN "compact_rest"
                     ELSE "compact_fill"
    /\ UNCHANGED <<Inputs, switch_to_nodes, workload_b, output_file, error>>

\* strategies.py lines 244-257
CompactReturn ==
    /\ \/ pc = "compact_rest"
       \/ pc = "compact_fill" /\ loc.j > Len(loc.remaining_switches)
    /\ LET r == CompactRest(CompactState, switch_to_nodes, workload_b_nodes)
       IN  workload_a' = r[1] /\ workload_b' = r[2]
    /\ pc' = "returned"
    /\ UNCHANGED <<Inputs, switch_to_nodes, loc, output_file, error>>

\* lines 85-87
AbortQuota ==
    /\ pc = "returned"
    /\ \/ Len(workload_a) # workload_a_nodes
       \/ Len(workload_b) # workload_b_nodes
    /\ error' = "QuotaMismatch"
    /\ pc' = "exit"
    /\ UNCHANGED <<Inputs, switch_to_nodes, workload_a, workload_b, loc,
                   output_file>>

\* mutant of WriteOutput: the sizes are not compared before writing
WriteOutput_Unchecked ==
    /\ pc = "returned"
    /\ output_file' = <<workload_a, workload_b>>
    /\ pc' = "written"
    /\ UNCHANGED <<Inputs, switch_to_nodes, workload_a, workload_b, loc,
                   error>>

\* lines 89-92: one line per workload, the names joined by commas
WriteOutput ==
    /\ pc = "returned"
    /\ Len(workload_a) = workload_a_nodes
    /\ Len(workload_b) = workload_b_nodes
    /\ output_file' = <<workload_a, workload_b>>
    /\ pc' = "written"
    /\ UNCHANGED <<Inputs, switch_to_nodes, workload_a, workload_b, loc,
                   error>>

Next ==
    \/ GroupNodes
    \/ AbortInsufficient
    \/ CallSingleSwitch
    \/ EvenBegin
    \/ EvenIter
    \/ EvenReturn
    \/ CompactEmpty
    \/ CompactBegin
    \/ CompactFill
    \/ CompactReturn
    \/ AbortQuota
    \/ WriteOutput

Spec == Init /\ [][Next]_vars

\* ---- parsers.py: expand_nodes and parse_topology_file ----
\* In this part a node name is the sequence of the decimal digits that
\* follow its prefix (all names share one prefix), so that padding shows.

RECURSIVE ToInt(_)
ToInt(digits) ==
    IF digits = <<>> THEN 0
    ELSE 10 * ToInt(SubSeq(digits, 1, Len(digits) - 1)) + digits[Len(digits)]

RECURSIVE Digits(_)
Digits(num) ==
    IF num < 10 THEN <<num>> ELSE Append(Digits(num \div 10), num % 10)

\* f"{num:0{padding}d}"
Format(num, padding) ==
    LET d == Digits(num)
    IN  [i \in 1..Max(padding - Len(d), 0) |-> 0] \o d

\* one comma-separated specification (lines 28-49)
ExpandSpec(spec) ==
    IF spec.kind = "range"
    THEN LET start == ToInt(spec.start_str)
             end == ToInt(spec.end_str)
             padding == Len(spec.start_str)
         IN  [i \in 1..Max(end + 1 - start, 0) |->
                 Format(start + i - 1, padding)]
    ELSE IF spec.kind = "single"
    THEN <<Format(ToInt(spec.start_str), Len(spec.start_str))>>
    ELSE <<spec.start_str>>

\* expand_nodes on the specifications after "Nodes="
RECURSIVE expand_nodes(_)
expand_nodes(specs) ==
    IF specs = <<>> THEN <<>>
    ELSE ExpandSpec(Head(specs)) \o expand_nodes(Tail(specs))

\* d[k] = v
Put(d, k, v) == [x \in DOMAIN d \cup {k} |-> IF x = k THEN v ELSE d[x]]

RECURSIVE PutAll(_, _, _)
PutAll(d, ks, v) ==
    IF ks = <<>> THEN d ELSE PutAll(Put(d, Head(ks), v), Tail(ks), v)

\* the topology text: a line is what the two regular expressions and the
\* "Nodes=" test see in it.  switch = None: no "SwitchName=.. Level=..";
\* "Switches=" comes last on its line, its text runs to the end of the line
Bare(digits) == [kind |-> "bare", start_str |-> digits, end_str |-> <<>>]
Range(from, to) == [kind |-> "range", start_str |-> from, end_str |-> to]
Single(digits) == [kind |-> "single", start_str |-> digits, end_str |-> <<>>]

TopoSwitches == 1..MaxTopoSwitch
TopoParentA == MaxTopoSwitch + 1
TopoParentB == MaxTopoSwitch + 2

Line(switch, level, has_switches, parents, has_nodes, nodes) ==
    [switch |-> switch, level |-> level, has_switches |-> has_switches,
     parents |-> parents, has_nodes |-> has_nodes, nodes |-> nodes]

ParentTexts == {<<>>, <<TopoParentA>>, <<TopoParentB>>,
                <<TopoParentA, TopoParentB>>}

NodeTexts == {<<Single(<<0, 1>>)>>, <<Range(<<1>>, <<2>>)>>,
              <<Range(<<2>>, <<1>>)>>, <<Range(<<0, 1>>, <<2>>)>>,
              <<Bare(<<2>>), Range(<<1>>, <<2>>)>>}

TopoLines ==
    {Line(s, 1, FALSE, <<>>, FALSE, <<>>) : s \in TopoSwitches} \cup
    {Line(s, 0, FALSE, <<>>, FALSE, <<>>) : s \in TopoSwitches} \cup
    {Line(s, 0, TRUE, p, FALSE, <<>>) : s \in TopoSwitches, p \in ParentTexts}
    \cup
    {Line(1, l, FALSE, <<>>, TRUE, <<Bare(<<1>>)>>) : l \in 0..1} \cup
    {Line(None, 0, FALSE, <<>>, TRUE, n) : n \in NodeTexts} \cup
    {Line(None, 0, FALSE, <<>>, FALSE, <<>>)}

InitTopo ==
    /\ pc = "parsing"
    /\ lines \in UNION {[1..n -> TopoLines] : n \in 0..MaxLines}
    /\ line_no = 1
    /\ current_switch = None
    /\ node_to_switch = <<>>
    /\ switch_hierarchy = [parents |-> <<>>, children |-> <<>>]
    /\ allocated_nodes = <<>>
    /\ strategy = "compact"
    /\ workload_a_nodes = 0
    /\ workload_b_nodes = 0
    /\ switch_to_nodes = <<>>
    /\ workload_a = <<>>
    /\ workload_b = <<>>
    /\ loc = NoLocals
    /\ output_file = NoFile
    /\ error = ""

\* parse_topology_file lines 77-101: the loop body for one line
ParseLine ==
    /\ pc = "parsing"
    /\ line_no <= Len(lines)
    /\ LET line == lines[line_no]
           m == line.switch # None
           switch == IF m THEN line.switch ELSE current_switch
           leaf == m /\ line.level = 0 /\ line.has_switches
           parents == IF leaf
                      THEN Put(switch_hierarchy.parents, switch, line.parents)
                      ELSE switch_hierarchy.parents
           children == IF leaf
                       THEN AddChildren(switch_hierarchy.children,
                                        SplitComma(line.parents), switch)
                       ELSE switch_hierarchy.children
       IN  /\ current_switch' = switch
           /\ switch_hierarchy' = [parents |-> parents, children |-> children]
           /\ node_to_switch' =
                 IF line.has_nodes /\ switch # None
                 THEN PutAll(node_to_switch, expand_nodes(line.nodes), switch)
                 ELSE node_to_switch
    /\ line_no' = line_no + 1
    /\ UNCHANGED <<pc, lines, allocated_nodes, strategy, workload_a_nodes,
                   workload_b_nodes, switch_to_nodes, workload_a, workload_b,
                   loc, output_file, error>>

\* parse_topology_file line 103
ParseReturn ==
    /\ pc = "parsing"
    /\ line_no > Len(lines)
    /\ pc' = "parsed"
    /\ UNCHANGED <<lines, line_no, current_switch, node_to_switch,
                   switch_hierarchy, allocated_nodes, strategy,
                   workload_a_nodes, workload_b_nodes, switch_to_nodes,
                   workload_a, workload_b, loc, output_file, error>>

NextTopo == ParseLine \/ ParseReturn

SpecTopo == InitTopo /\ [][NextTopo]_vars

\* ---- properties ----

Swap(seq, i, j) ==
    [x \in 1..Len(seq) |->
        IF x = i THEN seq[j] ELSE IF x = j THEN seq[i] ELSE seq[x]]

\* the same list in another order: every permutation of a short list, every
\* transposition of a long one
Reorderings(seq) ==
    IF Len(seq) <= MaxAlloc
    THEN {[x \in 1..Len(seq) |-> seq[f[x]]] : f \in Permutations(1..Len(seq))}
    ELSE {Swap(seq, i, j) : i \in 1..Len(seq), j \in 1..Len(seq)}

Strategy(groups) ==
    IF strategy = "even"
    THEN evenly_split_nodes_between_workloads(groups, workload_a_nodes,
                                              workload_b_nodes)
    ELSE compact_split_nodes_between_workloads(groups, switch_hierarchy,
                                               workload_a_nodes,
                                               workload_b_nodes)

SetA == SeqToSet(workload_a)
SetB == SeqToSet(workload_b)
ExactSizes ==
    Len(workload_a) = workload_a_nodes /\ Len(workload_b) = workload_b_nodes
Missing == SeqToSet(allocated_nodes) \ DOMAIN node_to_switch
RECURSIVE GroupedCount(_)
GroupedCount(groups) ==
    IF groups = <<>> THEN 0
    ELSE Len(Head(groups).nodes) + GroupedCount(Tail(groups))
LargestNodes ==
    SeqToSet(Get(switch_to_nodes, LargestSwitch(switch_to_nodes)))

\* C1: whenever a strategy returns lists of exactly the requested sizes,
\* workload_a and workload_b share no node and hold allocated nodes only,
\* also when the allocated list names a node more than once.
C1_DisjointAndAllocated ==
    (pc = "returned" /\ ExactSizes) =>
        /\ SetA \cap SetB = {}
        /\ (SetA \cup SetB) \subseteq SeqToSet(allocated_nodes)

\* C2: the output is written only when requested_a + requested_b <= the
\* number of allocated nodes and both lists have exactly the requested
\* sizes; after InsufficientNodes or QuotaMismatch nothing is written.
C2_WriteOnlyExact ==
    /\ output_file # NoFile =>
          /\ pc = "written"
          /\ workload_a_nodes + workload_b_nodes <= Len(allocated_nodes)
          /\ ExactSizes
          /\ output_file = <<workload_a, workload_b>>
    /\ pc = "exit" =>
          /\ output_file = NoFile
          /\ \/ /\ error = "InsufficientNodes"
                /\ workload_a_nodes + workload_b_nodes > Len(allocated_nodes)
             \/ /\ error = "QuotaMismatch"
                /\ ~ExactSizes
    /\ pc = "written" => output_file # NoFile /\ error = ""

C2_Witness ==
    /\ pc = "written"
    /\ workload_a_nodes > 0
    /\ workload_b_nodes > 0
    /\ Len(switch_to_nodes) >= 2

\* the nodes of the only switch, ascending
OnlySorted == Sorted(switch_to_nodes[1].nodes)

\* C3 (as stated): with exactly one switch, A is the first requested_a
\* nodes of the sorted list and B the nodes that follow up to position
\* requested_a + requested_b; later nodes are in neither list.
C3_BoundedRemainder ==
    (pc = "returned" /\ Len(switch_to_nodes) = 1) =>
        /\ workload_a = SubSeq(OnlySorted, 1,
                               Min(workload_a_nodes, Len(OnlySorted)))
        /\ workload_b = SubSeq(OnlySorted, workload_a_nodes + 1,
                               Min(workload_a_nodes + workload_b_nodes,
                                   Len(OnlySorted)))

\* C3 (amended): with exactly one switch, A is the first requested_a nodes
\* of the sorted list and B is every node that follows, to the end of the
\* list: nodes beyond position requested_a + requested_b are in B.
C3_WholeRemainder ==
    (pc = "returned" /\ Len(switch_to_nodes) = 1) =>
        /\ workload_a = SubSeq(OnlySorted, 1,
                               Min(workload_a_nodes, Len(OnlySorted)))
        /\ workload_b = SubSeq(OnlySorted, workload_a_nodes + 1,
                               Len(OnlySorted))
        /\ workload_a \o workload_b = OnlySorted

C3_Witness ==
    /\ pc = "returned"
    /\ Len(switch_to_nodes) = 1
    /\ workload_a_nodes >= 1
    /\ Len(OnlySorted) > workload_a_nodes + workload_b_nodes
    /\ Len(workload_b) > workload_b_nodes

InLargest(n) == node_to_switch[n] = LargestSwitch(switch_to_nodes)

LargestHoldsAll ==
    /\ pc = "returned"
    /\ strategy = "compact"
    /\ Len(switch_to_nodes) >= 1
    /\ Len(Get(switch_to_nodes, LargestSwitch(switch_to_nodes)))
          >= workload_a_nodes + workload_b_nodes

\* C4 (as stated): compact, the largest switch has at least requested_a +
\* requested_b nodes: every node of A and of B belongs to the largest
\* switch.
C4_AllFromLargest ==
    LargestHoldsAll => \A n \in SetA \cup SetB : InLargest(n)

\* C4 (amended): compact, the largest switch has at least requested_a +
\* requested_b nodes and requested_a >= 1: every node of B and the first
\* node of A belong to the largest switch; the other requested_a - 1 nodes
\* of A are taken from the other switches first, so A lies wholly in the
\* largest switch when requested_a = 1, and with two or more switches and
\* requested_a >= 2 the second node of A is not of the largest switch.
C4_LargestFirstThenOthers ==
    (LargestHoldsAll /\ workload_a_nodes >= 1) =>
        /\ \A n \in SetB : InLargest(n)
        /\ InLargest(workload_a[1])
        /\ workload_a_nodes = 1 => \A n \in SetA : InLargest(n)
        /\ (workload_a_nodes >= 2 /\ Len(switch_to_nodes) >= 2) =>
              ~InLargest(workload_a[2])

C4_Witness ==
    /\ LargestHoldsAll
    /\ Len(switch_to_nodes) >= 2
    /\ workload_a_nodes >= 2
    /\ ~InLargest(workload_a[2])

\* C5 (as stated): the lists do not depend on the order in which the switch
\* grouping was built: every reordering of the allocated list gives the
\* same two lists, for both strategies.
C5_OrderIndependent ==
    pc = "returned" =>
        \A alloc \in Reorderings(allocated_nodes) :
            Strategy(group_nodes_by_switch(alloc, node_to_switch))
                = <<workload_a, workload_b>>

\* C5 (amended): the same inputs give the same two lists; for `even` every
\* reordering of the allocated list gives the same lists; for `compact`
\* every reordering that keeps the switches in the same insertion order
\* does: the order of the nodes within a switch has no effect, the
\* insertion order of the switches decides ties.
C5_OrderIndependentEven ==
    pc = "returned" =>
        \A alloc \in Reorderings(allocated_nodes) :
            LET groups == group_nodes_by_switch(alloc, node_to_switch)
            IN  (strategy = "even" \/ Keys(groups) = Keys(switch_to_nodes))
                    => Strategy(groups) = <<workload_a, workload_b>>

C5_Witness ==
    /\ pc = "returned"
    /\ strategy = "even"
    /\ Len(switch_to_nodes) >= 2
    /\ Keys(switch_to_nodes) # SortedKeys(switch_to_nodes)
    /\ workload_a # <<>>
    /\ workload_b # <<>>

\* two switches of k distinct nodes each, requested_a = requested_b = k
TwoEqualSwitches(k) ==
    /\ strategy = "even"
    /\ Len(switch_to_nodes) = 2
    /\ \A i \in 1..2 :
          /\ Len(switch_to_nodes[i].nodes) = k
          /\ Cardinality(SeqToSet(switch_to_nodes[i].nodes)) = k
    /\ workload_a_nodes = k
    /\ workload_b_nodes = k

EvenLoopOver ==
    /\ pc = "even_loop"
    /\ \/ loc.i > Len(switch_to_nodes)
       \/ EvenBreak(EvenState, workload_a_nodes, workload_b_nodes)

\* C6: even, two switches of k distinct nodes each, requested_a =
\* requested_b = k: when the loop over the switches is over, A and B hold k
\* nodes each and no node is left unassigned, so the remainder step appends
\* nothing and the lists returned have k nodes each.
C6_EqualSwitchesExact ==
    \A k \in 1..(MaxK + 1) :
        TwoEqualSwitches(k) =>
            /\ EvenLoopOver =>
                  /\ Len(workload_a) = k
                  /\ Len(workload_b) = k
                  /\ AllNodes(switch_to_nodes) \ loc.allocated_nodes = {}
                  /\ EvenRemainder(EvenState, switch_to_nodes) = workload_b
            /\ pc = "returned" => Len(workload_a) = k /\ Len(workload_b) = k

C6_Witness ==
    /\ TwoEqualSwitches(5)
    /\ EvenLoopOver
    /\ loc.i = 3

EvenSeveralSwitches ==
    /\ pc = "returned"
    /\ strategy = "even"
    /\ Len(switch_to_nodes) >= 2

\* C7 (as stated): even, two or more switch groups, requested_a +
\* requested_b <= the number of allocated nodes: once the never-assigned
\* nodes are appended, len(workload_b) = requested_b.
C7_RemainderFillsB ==
    EvenSeveralSwitches => Len(workload_b) = workload_b_nodes

\* C7 (amended): even, two or more switch groups, requested_a +
\* requested_b equal to the number of nodes in the switch groups: the
\* strategy returns len(workload_b) = requested_b and len(workload_a) =
\* requested_a, and the remainder step has nothing to append.  (With a
\* smaller requested_a + requested_b every never-assigned node is appended
\* to B, whatever requested_b is.)
C7_ExactWhenAllRequested ==
    (/\ EvenSeveralSwitches
     /\ workload_a_nodes + workload_b_nodes = GroupedCount(switch_to_nodes))
        => /\ Len(workload_b) = workload_b_nodes
           /\ Len(workload_a) = workload_a_nodes
           /\ AllNodes(switch_to_nodes) \subseteq loc.allocated_nodes

C7_Witness ==
    /\ EvenSeveralSwitches
    /\ workload_a_nodes + workload_b_nodes = GroupedCount(switch_to_nodes)
    /\ Len(switch_to_nodes) = 3
    /\ workload_a_nodes >= 1
    /\ workload_b_nodes >= 1

\* C9 (as stated): compact, at least one grouped node, any requested_a and
\* requested_b (requested_a = 0 and the single-switch shortcut included):
\* workload_a contains a node of the largest switch.
C9_LargestInA ==
    (pc = "returned" /\ strategy = "compact" /\ Len(switch_to_nodes) >= 1)
        => SetA \cap LargestNodes # {}

\* C9 (amended): compact with two or more switch groups, any requested_a
\* and requested_b (requested_a = 0 included): workload_a starts with the
\* smallest node of the largest switch.  In the single-switch shortcut
\* workload_a contains a node of the switch when requested_a >= 1 and is
\* empty when requested_a = 0.
C9_LargestInAUnlessShortcutZero ==
    (pc = "returned" /\ strategy = "compact" /\ Len(switch_to_nodes) >= 1)
        => /\ Len(switch_to_nodes) >= 2 =>
                 /\ workload_a # <<>>
                 /\ workload_a[1] \in LargestNodes
                 /\ \A n \in LargestNodes : workload_a[1] <= n
           /\ (Len(switch_to_nodes) = 1 /\ workload_a_nodes >= 1) =>
                 SetA \cap LargestNodes # {}
           /\ (Len(switch_to_nodes) = 1 /\ workload_a_nodes = 0) =>
                 workload_a = <<>>

C9_Witness ==
    /\ pc = "returned"
    /\ strategy = "compact"
    /\ Len(switch_to_nodes) >= 2
    /\ workload_a_nodes = 0
    /\ workload_a # <<>>

\* C10: an allocated node that is absent from the topology is in no switch
\* group and, when the strategy still has to fill B, its remainder step
\* places the node in B (the remainder covers every allocated node): a B
\* that is returned short of requested_b holds every such node.
C10_MissingLandInB ==
    (pc = "returned" /\ Len(switch_to_nodes) >= 2) =>
        \A n \in Missing :
            /\ n \notin AllNodes(switch_to_nodes)
            /\ Len(workload_b) < workload_b_nodes => n \in SetB

\* the distance the specification describes: the first-listed parents
\* decide
FirstParentDistance(s1, s2) ==
    LET parents == switch_hierarchy.parents
    IN  IF s1 = s2 THEN 0
        ELSE IF s1 \notin DOMAIN parents \/ s2 \notin DOMAIN parents THEN 2
        ELSE IF /\ parents[s1] # <<>>
                /\ parents[s2] # <<>>
                /\ Head(parents[s1]) = Head(parents[s2])
        THEN 1
        ELSE 2

\* C8: for every hierarchy the parser builds and all switches s1, s2 the
\* distance is 0 if s1 = s2, else 2 if a switch has no recorded parents,
\* else 1 if the first-listed parents are equal (whatever the further
\* parents are), else 2.
C8_DistanceByFirstParent ==
    \A s1 \in TopoSwitches, s2 \in TopoSwitches :
        calculate_switch_distance(s1, s2, switch_hierarchy)
            = FirstParentDistance(s1, s2)

\* the switches a processed line declared with Level 0
DeclaredLeaves ==
    {lines[i].switch : i \in {j \in 1..(line_no - 1) :
                                 /\ lines[j].switch # None
                                 /\ lines[j].level = 0}}

\* C11: after any sequence of topology lines, every value of node_to_switch
\* is a switch that a processed line declared with Level 0; a node list is
\* never recorded against a switch of level 1 or higher.
C11_NodesOnLeavesOnly ==
    \A n \in DOMAIN node_to_switch : node_to_switch[n] \in DeclaredLeaves

\* a specification prefix[start-end] with end < start
Inverted(spec) ==
    spec.kind = "range" /\ ToInt(spec.end_str) < ToInt(spec.start_str)

\* the line just processed was handed to expand_nodes and holds an
\* inverted range
ExpandedInverted ==
    /\ line_no > 1
    /\ line_no - 1 <= Len(lines)
    /\ lines[line_no - 1].has_nodes
    /\ current_switch # None
    /\ \E k \in DOMAIN lines[line_no - 1].nodes :
           Inverted(lines[line_no - 1].nodes[k])

\* C12: expanding a specification prefix[start-end] with an inverted range
\* (end < start) fails with a MalformedSpec error instead of returning a
\* node list: once such a line was expanded the error is raised.
C12_InvertedRangeFails ==
    ExpandedInverted => error = "MalformedSpec"

\* C13: in every iteration of the even strategy's loop, in the undersupply
\* and in the oversupply branch alike and also when requested_a = 0 or
\* requested_b = 0, a_count <= need_a and b_count <= need_b: after every
\* iteration total_a <= requested_a and total_b <= requested_b.
C13_TotalsWithinRequests ==
    loc.strategy = "even" =>
        /\ loc.total_a <= workload_a_nodes
        /\ loc.total_b <= workload_b_nodes

\* compact: the non-largest switch groups, their distance to the largest
\* switch, and what they gave to A
OtherSwitches == SeqToSet(Keys(switch_to_nodes)) \ {loc.largest_switch}

DistanceToLargest(s) ==
    calculate_switch_distance(loc.largest_switch, s, switch_hierarchy)

Contributes(s) == SeqToSet(Get(switch_to_nodes, s)) \cap SetA # {}

WhollyInA(s) == SeqToSet(Get(switch_to_nodes, s)) \subseteq SetA

\* A holds a node of the largest switch besides the one placed first
ReserveContributes ==
    Cardinality({i \in DOMAIN workload_a : InLargest(workload_a[i])}) > 1

\* C14: compact with two or more switch groups fills A from the non-largest
\* switches in ascending order of distance to the largest switch and from
\* the largest switch's reserve only after them: a switch at distance d
\* gives a node to A only if every nearer switch is wholly in A, the reserve
\* gives a node only if every non-largest switch is wholly in A, and the
\* fill adds nothing once A holds requested_a nodes.
C14_FillNearestFirstAndStop ==
    loc.strategy = "compact" =>
        /\ \A s \in OtherSwitches, t \in OtherSwitches :
              (Contributes(s) /\ DistanceToLargest(t) < DistanceToLargest(s))
                  => WhollyInA(t)
        /\ ReserveContributes => \A s \in OtherSwitches : WhollyInA(s)
        /\ Len(workload_a) <= Max(workload_a_nodes, 1)
====
